---------------------------- MODULE Spec2Model ----------------------------
(***************************************************************************)
(* A model of passcheck (src/password_checker.py): the password scoring    *)
(* engine, its three pattern detectors, the entropy estimate and the label *)
(* mapper.                                                                 *)
(*                                                                         *)
(* A character is a token (a one-character string; "U+4E2D" stands for the *)
(* single CJK letter of that code point).  A password and a dictionary     *)
(* word are sequences of characters.  Python's str predicates and ord()    *)
(* are tables over the characters the model uses.                          *)
(***************************************************************************)
EXTENDS Integers, Sequences, FiniteSets, TLC

VARIABLES
    password,       \* the password argument of the call
    common_words,   \* the word set (load_common_words' result, or the argument)
    n,              \* the integer argument: min_len, run_len or score
    called,         \* "none", or the function that has been called last
    hits,           \* find_dictionary_hits' result
    flag,           \* has_simple_sequence's or has_repeated_run's result
    label,          \* strength_label's result
    result,         \* calculate_score_and_suggestions' result
    prev            \* the previous call of the same function: its argument and result

vars == <<password, common_words, n, called, hits, flag, label, result, prev>>

----------------------------------------------------------------------------
(* Characters: Python's str.islower, isupper, isdigit, isalnum, lower, ord *)

LowerLetters == <<"a","b","c","d","e","f","g","h","i","j","k","l","m",
                  "n","o","p","q","r","s","t","u","v","w","x","y","z">>

UpperLetters == <<"A","B","C","D","E","F","G","H","I","J","K","L","M",
                  "N","O","P","Q","R","S","T","U","V","W","X","Y","Z">>

Digits == <<"0","1","2","3","4","5","6","7","8","9">>

\* ASCII punctuation the inputs use, with its code point.
SymbolCode == [c \in {"!", "?", "@"} |->
                 CASE c = "!" -> 33 [] c = "?" -> 63 [] c = "@" -> 64]

\* Letters with no case (CJK): alphanumeric, neither lower nor upper nor digit.
CaselessCode == [c \in {"U+4E2D"} |-> 20013]

Range(s) == {s[i] : i \in 1..Len(s)}

IndexOf(s, c) == CHOOSE i \in 1..Len(s) : s[i] = c

LowerSet == Range(LowerLetters)

UpperSet == Range(UpperLetters)

DigitSet == Range(Digits)

Chars == LowerSet \cup UpperSet \cup DigitSet \cup DOMAIN SymbolCode \cup DOMAIN CaselessCode

islower(c) == c \in LowerSet

isupper(c) == c \in UpperSet

isdigit(c) == c \in DigitSet

isalnum(c) == islower(c) \/ isupper(c) \/ isdigit(c) \/ c \in DOMAIN CaselessCode

OrdTable ==
    [c \in Chars |->
        IF islower(c) THEN 96 + IndexOf(LowerLetters, c)
        ELSE IF isupper(c) THEN 64 + IndexOf(UpperLetters, c)
        ELSE IF isdigit(c) THEN 47 + IndexOf(Digits, c)
        ELSE IF c \in DOMAIN SymbolCode THEN SymbolCode[c]
        ELSE CaselessCode[c]]

ord(c) == OrdTable[c]

LowerTable ==
    [c \in Chars |-> IF isupper(c) THEN LowerLetters[IndexOf(UpperLetters, c)] ELSE c]

lower_char(c) == LowerTable[c]

lower(s) == [i \in 1..Len(s) |-> lower_char(s[i])]

\* Python's s[lo:hi] for a sequence (indices from 0, negative ones from the end).
Min(a, b) == IF a < b THEN a ELSE b

Max(a, b) == IF a > b THEN a ELSE b

SliceIndex(s, k) == IF k < 0 THEN Max(0, Len(s) + k) ELSE Min(k, Len(s))

Slice(s, lo, hi) == SubSeq(s, SliceIndex(s, lo) + 1, SliceIndex(s, hi))

----------------------------------------------------------------------------
(* find_dictionary_hits                                                    *)

\* Python's  w in s  for strings: a left-to-right search for w starting at i.
RECURSIVE SearchFrom(_, _, _)
SearchFrom(w, s, i) ==
    IF i + Len(w) > Len(s) THEN FALSE
    ELSE IF SubSeq(s, i + 1, i + Len(w)) = w THEN TRUE
    ELSE SearchFrom(w, s, i + 1)

In(w, s) == SearchFrom(w, s, 0)

\* list.sort(key=len, reverse=True): stable, longest first.
RECURSIVE InsertByLen(_, _)
InsertByLen(sorted, w) ==
    IF sorted = <<>> THEN <<w>>
    ELSE IF Len(Head(sorted)) >= Len(w) THEN <<Head(sorted)>> \o InsertByLen(Tail(sorted), w)
    ELSE <<w>> \o sorted

RECURSIVE SortByLenDesc(_)
SortByLenDesc(l) ==
    IF l = <<>> THEN <<>>
    ELSE InsertByLen(SortByLenDesc(SubSeq(l, 1, Len(l) - 1)), l[Len(l)])

\* Mutant of LongEnough: the length limit off by one.
LongEnoughFromThree(w) == Len(w) >= 3

LongEnough(w) == Len(w) >= 4

\* `order` is the order in which the iteration over the set yields its words.
find_dictionary_hits(pw, order) ==
    LET s == lower(pw)
        found == SelectSeq(order, LAMBDA w : LongEnough(w) /\ In(w, s))
    IN  SortByLenDesc(found)

----------------------------------------------------------------------------
(* estimate_entropy_bits                                                   *)

\* any(c.islower() for c in password), and so on
has_lower(pw) == \E i \in 1..Len(pw) : islower(pw[i])

has_upper(pw) == \E i \in 1..Len(pw) : isupper(pw[i])

has_digit(pw) == \E i \in 1..Len(pw) : isdigit(pw[i])

has_symbol(pw) == \E i \in 1..Len(pw) : ~isalnum(pw[i])

charset_size(pw) ==
    (IF has_lower(pw) THEN 26 ELSE 0) + (IF has_upper(pw) THEN 26 ELSE 0)
    + (IF has_digit(pw) THEN 10 ELSE 0) + (IF has_symbol(pw) THEN 33 ELSE 0)

\* math.log2 in millionths of a bit, rounded down, for the charset sizes that
\* can occur.  length * log2(charset) is never within length millionths of a
\* band limit (40, 70) for lengths below 60, so the bands are the code's.
Log2Micro(c) ==
    CASE c = 10 -> 3321928 [] c = 26 -> 4700439 [] c = 33 -> 5044394
      [] c = 36 -> 5169925 [] c = 43 -> 5426264 [] c = 52 -> 5700439
      [] c = 59 -> 5882643 [] c = 62 -> 5954196 [] c = 69 -> 6108524
      [] c = 85 -> 6409390 [] c = 95 -> 6569855

\* The estimate in millionths of a bit.
estimate_entropy_bits(pw) ==
    LET charset == charset_size(pw)
    IN  IF charset = 0 THEN 0 ELSE Len(pw) * Log2Micro(charset)

----------------------------------------------------------------------------
(* has_simple_sequence, has_repeated_run, strength_label                   *)

\* all(d == step for d in diffs), diffs taken over range(min_len - 1)
AllDiffs(chunk, min_len, step) ==
    \A j \in 0..(min_len - 2) : ord(chunk[j + 2]) - ord(chunk[j + 1]) = step

RECURSIVE SequenceLoop(_, _, _)
SequenceLoop(s, min_len, i) ==
    IF i >= Len(s) - min_len + 1 THEN FALSE
    ELSE LET chunk == Slice(s, i, i + min_len)
         IN  IF AllDiffs(chunk, min_len, 1) \/ AllDiffs(chunk, min_len, -1) THEN TRUE
             ELSE SequenceLoop(s, min_len, i + 1)

has_simple_sequence(pw, min_len) == SequenceLoop(lower(pw), min_len, 0)

RECURSIVE RunLoop(_, _, _, _)
RunLoop(pw, run_len, i, count) ==
    IF i >= Len(pw) THEN FALSE
    ELSE IF pw[i + 1] = pw[i]
         THEN IF count + 1 >= run_len THEN TRUE
              ELSE RunLoop(pw, run_len, i + 1, count + 1)
         ELSE RunLoop(pw, run_len, i + 1, 1)

\* Mutant of has_repeated_run: the count is not reset when the character changes.
RECURSIVE RunLoopNoReset(_, _, _, _)
RunLoopNoReset(pw, run_len, i, count) ==
    IF i >= Len(pw) THEN FALSE
    ELSE IF pw[i + 1] = pw[i]
         THEN IF count + 1 >= run_len THEN TRUE
              ELSE RunLoopNoReset(pw, run_len, i + 1, count + 1)
         ELSE RunLoopNoReset(pw, run_len, i + 1, count)

has_repeated_run_no_reset(pw, run_len) ==
    IF run_len <= 1 THEN FALSE ELSE RunLoopNoReset(pw, run_len, 1, 1)

has_repeated_run(pw, run_len) ==
    IF run_len <= 1 THEN FALSE ELSE RunLoop(pw, run_len, 1, 1)

\* Mutant of strength_label: the limits belong to the lower tier.
strength_label_inclusive(score) ==
    IF score <= 30 THEN "VERY WEAK"
    ELSE IF score <= 50 THEN "WEAK"
    ELSE IF score <= 70 THEN "OKAY"
    ELSE "STRONG"

strength_label(score) ==
    IF score < 30 THEN "VERY WEAK"
    ELSE IF score < 50 THEN "WEAK"
    ELSE IF score < 70 THEN "OKAY"
    ELSE "STRONG"

----------------------------------------------------------------------------
(* calculate_score_and_suggestions                                         *)

\* A finding: its text, the words it names (hits[:3]) and the number it prints:
\* the count of character types, or the entropy in tenths of a bit
\* ({entropy:.1f}).
Finding(text) == [text |-> text, words |-> <<>>, num |-> 0]

WordsFinding(text, words) == [text |-> text, words |-> words, num |-> 0]

EntropyFinding(text, entropy) ==
    [text |-> text, words |-> <<>>, num |-> (entropy + 50000) \div 100000]

\* The running score and the two lists, as the steps of the function leave them.
Start == [score |-> 0, findings |-> <<>>, suggestions |-> <<>>]

Add(acc, points, findings, suggestions) ==
    [score |-> acc.score + points,
     findings |-> acc.findings \o findings,
     suggestions |-> acc.suggestions \o suggestions]

\* Mutant of DictionaryStep: the penalty taken once per hit.
DictionaryStepPerHit(acc, found) ==
    IF found # <<>>
    THEN Add(acc, -25 * Len(found),
             <<WordsFinding("Contains common word(s)", SubSeq(found, 1, Min(3, Len(found))))>>,
             <<"Avoid common words/names; use random phrases or a password manager.">>)
    ELSE acc

DictionaryStep(acc, found) ==
    IF found # <<>>
    THEN Add(acc, -25,
             <<WordsFinding("Contains common word(s)", SubSeq(found, 1, Min(3, Len(found))))>>,
             <<"Avoid common words/names; use random phrases or a password manager.">>)
    ELSE acc

LengthStep(acc, length) ==
    IF length < 8
    THEN Add(acc, 5, <<Finding("Too short (< 8 characters).")>>,
             <<"Increase length to at least 12-14 characters.">>)
    ELSE IF length < 12
    THEN Add(acc, 20, <<Finding("Short (8-11 characters).")>>,
             <<"Increase length to 12-14+ characters.">>)
    ELSE IF length < 16
    THEN Add(acc, 32, <<Finding("Good length (12-15 characters).")>>, <<>>)
    ELSE Add(acc, 40, <<Finding("Great length (16+ characters).")>>, <<>>)

Bit(b) == IF b THEN 1 ELSE 0

categories(pw) ==
    Bit(has_lower(pw)) + Bit(has_upper(pw)) + Bit(has_digit(pw)) + Bit(has_symbol(pw))

VarietyStep(acc, pw) ==
    Add(acc, categories(pw) * 10,
        <<[text |-> "Character types used: /4.", words |-> <<>>, num |-> categories(pw)]>>,
        IF categories(pw) < 3 THEN <<"Mix uppercase, lowercase, digits, and symbols.">>
        ELSE <<>>)

EntropyStep(acc, entropy) ==
    IF entropy < 40 * 1000000
    THEN Add(acc, 0, <<EntropyFinding("Low estimated entropy", entropy)>>,
             <<"Make it longer and less predictable.">>)
    ELSE IF entropy < 70 * 1000000
    THEN Add(acc, 10, <<EntropyFinding("Moderate estimated entropy", entropy)>>, <<>>)
    ELSE Add(acc, 20, <<EntropyFinding("High estimated entropy", entropy)>>, <<>>)

\* Mutant of SequenceStep: the penalty added instead of subtracted.
SequenceStepBonus(acc, pw) ==
    IF has_simple_sequence(pw, 4)
    THEN Add(acc, 15, <<Finding("Contains a simple sequence (e.g., 1234 / abcd).")>>,
             <<"Avoid sequences like 1234 or abcd.">>)
    ELSE acc

SequenceStep(acc, pw) ==
    IF has_simple_sequence(pw, 4)
    THEN Add(acc, -15, <<Finding("Contains a simple sequence (e.g., 1234 / abcd).")>>,
             <<"Avoid sequences like 1234 or abcd.">>)
    ELSE acc

RepeatStep(acc, pw) ==
    IF has_repeated_run(pw, 4)
    THEN Add(acc, -15, <<Finding("Contains repeated characters (e.g., aaaa / 1111).")>>,
             <<"Avoid repeated characters like aaaa.">>)
    ELSE acc

\* Mutant of Clamp: the lower limit forgotten.
ClampUpperOnly(score) == Min(score, 100)

Clamp(score) == Max(0, Min(score, 100))

RECURSIVE DedupeLoop(_, _, _)
DedupeLoop(items, seen, out) ==
    IF items = <<>> THEN out
    ELSE IF Head(items) \in seen THEN DedupeLoop(Tail(items), seen, out)
    ELSE DedupeLoop(Tail(items), seen \cup {Head(items)}, Append(out, Head(items)))

dedupe_preserve_order(items) == DedupeLoop(items, {}, <<>>)

\* The return at length == 0.  `raw` is the local variable score at the return.
EmptyReturn(acc, entropy) ==
    LET a == Add(acc, 0, <<Finding("Password is empty.")>>,
                 <<"Use a password manager to generate a long random password.">>)
    IN  [score |-> 0, raw |-> a.score, findings |-> a.findings,
         suggestions |-> dedupe_preserve_order(a.suggestions), entropy |-> entropy]

\* The final return.  `raw` is the local variable score before the clamp.
FinalReturn(acc, entropy) ==
    [score |-> Clamp(acc.score), raw |-> acc.score, findings |-> acc.findings,
     suggestions |-> dedupe_preserve_order(acc.suggestions), entropy |-> entropy]

\* Mutant of calculate_score_and_suggestions: no return at length == 0.
calculate_without_empty_return(pw, order) ==
    LET length == Len(pw)
        entropy == estimate_entropy_bits(pw)
        a1 == DictionaryStep(Start, find_dictionary_hits(pw, order))
        a2 == LengthStep(a1, length)
        a3 == VarietyStep(a2, pw)
        a4 == EntropyStep(a3, entropy)
        a5 == SequenceStep(a4, pw)
        a6 == RepeatStep(a5, pw)
    IN  FinalReturn(a6, entropy)

\* `order`: the iteration order of the set load_common_words() returned.
calculate_score_and_suggestions(pw, order) ==
    LET length == Len(pw)
        entropy == estimate_entropy_bits(pw)
        a1 == DictionaryStep(Start, find_dictionary_hits(pw, order))
    IN  IF length = 0 THEN EmptyReturn(a1, entropy)
        ELSE LET a2 == LengthStep(a1, length)
                 a3 == VarietyStep(a2, pw)
                 a4 == EntropyStep(a3, entropy)
                 a5 == SequenceStep(a4, pw)
                 a6 == RepeatStep(a5, pw)
             IN  FinalReturn(a6, entropy)

----------------------------------------------------------------------------
(* Inputs                                                                  *)

\* All the sequences over `alphabet` of length at most k.
RECURSIVE Strings(_, _)
Strings(alphabet, k) ==
    IF k = 0 THEN {<<>>}
    ELSE LET shorter == Strings(alphabet, k - 1)
         IN  shorter \cup {Append(s, c) : s \in {x \in shorter : Len(x) = k - 1}, c \in alphabet}

Concat(heads, tails) == {h \o t : h \in heads, t \in tails}

\* The orders in which an iteration over the set S can yield its elements.
Orders(S) ==
    {f \in [1..Cardinality(S) -> S] : \A i, j \in 1..Cardinality(S) : f[i] = f[j] => i = j}

\* The passwords and the word set of src/tests/test_password_checker.py.
Abcd1234 == <<"A","b","c","d","1","2","3","4","!","!">>

Axcd1294 == <<"A","x","c","d","1","2","9","4","!","!">>

AAAA1111 == <<"A","A","A","A","1","1","1","1","!","!","!","!">>

AAAB1112 == <<"A","A","A","B","1","1","1","2","!","!","!","?">>

Password1234 == <<"P","a","s","s","w","o","r","d","1","2","3","4","!">>

Passw0rd123 == <<"P","@","s","s","w","0","r","d","1","2","3","!">>

TestPasswords == {<<>>, Abcd1234, Axcd1294, AAAA1111, AAAB1112, Password1234, Passw0rd123}

w_password == <<"p","a","s","s","w","o","r","d">>

w_admin == <<"a","d","m","i","n">>

w_welcome == <<"w","e","l","c","o","m","e">>

TestWords == {w_password, w_admin, w_welcome}

\* Scoring: every short string over one character of each kind, followed by
\* one of a few tails that bring the length into each band, with and without
\* a dictionary word, a sequence and a repeated run.
ScoreLen == 3

ScoreAlphabet == {"a", "B", "1", "!", "U+4E2D"}

ScoreTails ==
    {<<>>, <<"w","o","r","d">>, <<"1","2","3","4","!">>, <<"2","9","4","!","!">>,
     <<"U+4E2D","U+4E2D","U+4E2D","U+4E2D","U+4E2D">>,
     <<"x","c","d","1","2","9","4","!","!">>,
     <<"w","o","r","d","1","1","1","1","a","b","c","d">>,
     AAAA1111, Passw0rd123, Password1234, Axcd1294 \o <<"?","x","9">>}

ScorePasswords == Concat(Strings(ScoreAlphabet, ScoreLen), ScoreTails) \cup TestPasswords

ScoreWords == {w_password, w_admin, <<"w","o","r","d">>}

\* Two calls in a row: passwords that differ in one detector's verdict only.
PairLen == 2

PairAlphabet == {"a", "A"}

PairTails ==
    {<<"b","c","d","1","2">>, <<"x","c","d","1","2">>,
     <<"b","c","d","1","2","3","4","!","!">>, <<"x","c","d","1","2","9","4","!","!">>,
     <<"b","c","d","1","1","1","1","!","!">>, <<"x","c","d","1","1","1","1","!","!">>,
     <<"x","c","d","1","2","!","!","!","!">>,
     <<"A","A","A","1","1","1","1","!","!","!","!">>,
     <<"A","A","B","1","1","1","2","!","!","!","?">>}

PairPasswords == Concat(Strings(PairAlphabet, PairLen), PairTails)

PairWords == {<<"c","d","1","2">>}

\* The dictionary detector alone: every short string over a, b and A.
DictLen == 5

DictAlphabet == {"a", "b", "A"}

DictPasswords == Strings(DictAlphabet, DictLen)

DictWords ==
    {<<"a","b","a","b">>, <<"b","a","b","a">>, <<"a","b","a","b","a">>,
     <<"a","b","a">>, <<"A","b","a","b">>}

\* The two pattern detectors alone, with their second argument.
DetectLen == 4

DetectAlphabet == {"a", "b", "c", "A"}

DetectPasswords == Strings(DetectAlphabet, DetectLen)

MaxParam == 5

Params == -1..MaxParam

\* strength_label: the scores the scorer can return, and some on either side.
MaxScore == 100

ExtraScores == 20

Scores == (0 - ExtraScores)..(MaxScore + ExtraScores)

----------------------------------------------------------------------------
(* The state machine: a call of one of the functions on the inputs         *)

NoResult == [score |-> 0, raw |-> 0, findings |-> <<>>, suggestions |-> <<>>, entropy |-> 0]

NoCall == [made |-> FALSE, password |-> <<>>, n |-> 0, score |-> 0, label |-> ""]

InitWith(passwords, wordsets, numbers) ==
    /\ password \in passwords
    /\ common_words \in wordsets
    /\ n \in numbers
    /\ called = "none"
    /\ hits = <<>>
    /\ flag = FALSE
    /\ label = ""
    /\ result = NoResult
    /\ prev = NoCall

\* calculate_score_and_suggestions(password)
Score ==
    /\ called = "none"
    /\ \E order \in Orders(common_words) :
           result' = calculate_score_and_suggestions(password, order)
    /\ called' = "calculate_score_and_suggestions"
    /\ UNCHANGED <<password, common_words, n, hits, flag, label, prev>>

\* strength_label(score), as analyze_and_print and the CLI call it on the result
LabelResult ==
    /\ called = "calculate_score_and_suggestions"
    /\ label' = strength_label(result.score)
    /\ called' = "strength_label"
    /\ UNCHANGED <<password, common_words, n, hits, flag, result, prev>>

\* A second call of calculate_score_and_suggestions, on another password q,
\* with the word list file unchanged.
ScoreNext(q) ==
    /\ called = "calculate_score_and_suggestions"
    /\ ~prev.made
    /\ prev' = [made |-> TRUE, password |-> password, n |-> n,
                score |-> result.score, label |-> label]
    /\ password' = q
    /\ \E order \in Orders(common_words) :
           result' = calculate_score_and_suggestions(q, order)
    /\ UNCHANGED <<common_words, n, called, hits, flag, label>>

\* find_dictionary_hits(password, common_words)
FindHits ==
    /\ called = "none"
    /\ \E order \in Orders(common_words) : hits' = find_dictionary_hits(password, order)
    /\ called' = "find_dictionary_hits"
    /\ UNCHANGED <<password, common_words, n, flag, label, result, prev>>

\* has_simple_sequence(password, n)
Sequence ==
    /\ called = "none"
    /\ flag' = has_simple_sequence(password, n)
    /\ called' = "has_simple_sequence"
    /\ UNCHANGED <<password, common_words, n, hits, label, result, prev>>

\* has_repeated_run(password, n)
Run ==
    /\ called = "none"
    /\ flag' = has_repeated_run(password, n)
    /\ called' = "has_repeated_run"
    /\ UNCHANGED <<password, common_words, n, hits, label, result, prev>>

\* strength_label(n)
Label ==
    /\ called = "none"
    /\ label' = strength_label(n)
    /\ called' = "strength_label"
    /\ UNCHANGED <<password, common_words, n, hits, flag, result, prev>>

\* A second call of strength_label, on another score m.
LabelNext(m) ==
    /\ called = "strength_label"
    /\ ~prev.made
    /\ prev' = [made |-> TRUE, password |-> password, n |-> n,
                score |-> result.score, label |-> label]
    /\ n' = m
    /\ label' = strength_label(m)
    /\ UNCHANGED <<password, common_words, called, hits, flag, result>>

\* The scorer on one password, then the label of its score.
Init == InitWith(ScorePasswords, SUBSET ScoreWords, {0})

Next == Score \/ LabelResult

Spec == Init /\ [][Next]_vars

\* The scorer on two passwords in a row.
InitPair == InitWith(PairPasswords, SUBSET PairWords, {0})

NextPair == Score \/ \E q \in PairPasswords : ScoreNext(q)

SpecPair == InitPair /\ [][NextPair]_vars

\* The dictionary detector.
InitDict ==
    \/ InitWith(DictPasswords, SUBSET DictWords, {0})
    \/ InitWith(TestPasswords, {TestWords}, {0})

NextDict == FindHits

SpecDict == InitDict /\ [][NextDict]_vars

\* The sequence and the run detector.
InitDetect == InitWith(DetectPasswords \cup TestPasswords, {{}}, Params)

NextDetect == Sequence \/ Run

SpecDetect == InitDetect /\ [][NextDetect]_vars

\* The label mapper.
InitLabel == InitWith({<<>>}, {{}}, Scores)

NextLabel == Label \/ \E m \in Scores : LabelNext(m)

SpecLabel == InitLabel /\ [][NextLabel]_vars

----------------------------------------------------------------------------
(* Properties                                                              *)

Scored == called \in {"calculate_score_and_suggestions", "strength_label"}

Texts(findings) == {findings[i].text : i \in 1..Len(findings)}

\* w occurs in the lowercased password pw at some position.
OccursIn(w, pw) ==
    \E i \in 1..(Len(pw) - Len(w) + 1) :
        \A k \in 1..Len(w) : lower_char(pw[i + k - 1]) = w[k]

\* The words of the set that a dictionary hit names.
HitWords(pw, words) == {w \in words : Len(w) >= 4 /\ OccursIn(w, pw)}

\* C1: the score the scorer returns is an integer between 0 and 100, for every
\* password and word set.
C1_ScoreInRange ==
    Scored => result.score \in 0..100

\* The penalties have taken the running score of a non-empty password below 0.
C1_Witness ==
    /\ called = "calculate_score_and_suggestions"
    /\ password # <<>>
    /\ result.raw < 0
    /\ result.score = 0

\* C2: for the empty password the scorer returns score 0 and entropy 0.0, the
\* findings hold "Password is empty." and no dictionary finding, the
\* suggestions are not empty, and no later step adds a finding or a suggestion.
C2_EmptyPassword ==
    (Scored /\ password = <<>>) =>
        /\ result.score = 0
        /\ result.entropy = 0
        /\ "Password is empty." \in Texts(result.findings)
        /\ "Contains common word(s)" \notin Texts(result.findings)
        /\ result.suggestions # <<>>
        /\ Len(result.findings) = 1
        /\ result.suggestions =
               <<"Use a password manager to generate a long random password.">>

\* The empty password has been scored against a word set that holds words.
C2_Witness ==
    /\ called = "calculate_score_and_suggestions"
    /\ password = <<>>
    /\ common_words = ScoreWords

Deleet(pw) ==
    [i \in 1..Len(pw) |-> IF pw[i] = "@" THEN "a" ELSE IF pw[i] = "0" THEN "o" ELSE pw[i]]

\* C4: find_dictionary_hits reports a word of length >= 4 that the password
\* spells with leetspeak substitutions ('@' for 'a', '0' for 'o'), as
\* "password" in "P@ssw0rd123!".
C4_LeetspeakHit ==
    called = "find_dictionary_hits" =>
        \A w \in common_words :
            (Len(w) >= 4 /\ OccursIn(w, Deleet(password))) => w \in Range(hits)

\* The first password p and the second password q agree in length, in the
\* character classes present and in having a dictionary hit.
SameButPatterns(p, q) ==
    /\ Len(p) = Len(q)
    /\ p # <<>>
    /\ has_lower(p) = has_lower(q)
    /\ has_upper(p) = has_upper(q)
    /\ has_digit(p) = has_digit(q)
    /\ has_symbol(p) = has_symbol(q)
    /\ (HitWords(p, common_words) = {}) = (HitWords(q, common_words) = {})

SequenceOnly(p, q) ==
    /\ SameButPatterns(p, q)
    /\ has_repeated_run(p, 4) = has_repeated_run(q, 4)
    /\ has_simple_sequence(p, 4)
    /\ ~has_simple_sequence(q, 4)

RepeatOnly(p, q) ==
    /\ SameButPatterns(p, q)
    /\ has_simple_sequence(p, 4) = has_simple_sequence(q, 4)
    /\ has_repeated_run(p, 4)
    /\ ~has_repeated_run(q, 4)

\* C5: of two non-empty passwords that differ only in one pattern detector's
\* verdict, the one the detector fires on scores no higher, and lower when the
\* other one's score is above 0.
C5_PenaltyNeverRaises ==
    (prev.made /\ (SequenceOnly(prev.password, password) \/ RepeatOnly(prev.password, password))) =>
        /\ prev.score <= result.score
        /\ result.score > 0 => prev.score < result.score

\* "Abcd1234!!" has been scored and then "Axcd1294!!", which scores higher.
C5_Witness ==
    /\ prev.made
    /\ prev.password = Abcd1234
    /\ password = Axcd1294
    /\ SequenceOnly(prev.password, password)
    /\ 0 < prev.score
    /\ prev.score < result.score

\* C6: has_simple_sequence is false on the empty password and on a password
\* shorter than min_len, for every min_len.
C6_ShortNeverTriggers ==
    (called = "has_simple_sequence" /\ (password = <<>> \/ Len(password) < n)) =>
        flag = FALSE

\* Some character stands at run_len consecutive positions of pw.
HasRun(pw, run_len) ==
    \E i \in 1..(Len(pw) - run_len + 1) :
        \A k \in 1..(run_len - 1) : pw[i + k] = pw[i]

\* C7: has_repeated_run is false when run_len <= 1, and otherwise true exactly
\* when some character is repeated at run_len or more consecutive positions.
C7_RepeatedRun ==
    called = "has_repeated_run" =>
        flag = (n > 1 /\ HasRun(password, n))

\* A run of two found after a change of character, in a password with no run
\* of three.
C7_Witness ==
    /\ called = "has_repeated_run"
    /\ n = 2
    /\ flag
    /\ Len(password) = 4
    /\ password[1] # password[2]
    /\ password[2] # password[3]
    /\ ~HasRun(password, 3)

\* C8: the charset size and the entropy are 0 for the empty password only; a
\* non-empty password has between 1 and 4 character classes.
C8_CharsetPositive ==
    (Scored /\ password # <<>>) =>
        /\ charset_size(password) > 0
        /\ result.entropy > 0
        /\ categories(password) \in 1..4

TierOf(score) ==
    CASE score < 30 -> "VERY WEAK"
      [] 30 <= score /\ score < 50 -> "WEAK"
      [] 50 <= score /\ score < 70 -> "OKAY"
      [] score >= 70 -> "STRONG"

Rank(l) == CASE l = "VERY WEAK" -> 0 [] l = "WEAK" -> 1 [] l = "OKAY" -> 2 [] l = "STRONG" -> 3

\* C9: strength_label gives "VERY WEAK" below 30, "WEAK" from 30 below 50,
\* "OKAY" from 50 below 70 and "STRONG" from 70, and so never a lower label
\* for a higher score.
C9_StrengthLabel ==
    called = "strength_label" =>
        /\ label = TierOf(n)
        /\ (prev.made /\ prev.n <= n) => Rank(prev.label) <= Rank(label)

\* 29 has been labelled "VERY WEAK" and then 30 "WEAK".
C9_Witness ==
    /\ called = "strength_label"
    /\ prev.made
    /\ prev.n = 29
    /\ prev.label = "VERY WEAK"
    /\ n = 30
    /\ label = "WEAK"

LengthPoints(pw) ==
    CASE Len(pw) < 8 -> 5
      [] Len(pw) \in 8..11 -> 20
      [] Len(pw) \in 12..15 -> 32
      [] Len(pw) >= 16 -> 40

ClassesPresent(pw) ==
    {k \in {"lower", "upper", "digit", "symbol"} :
        \E i \in 1..Len(pw) :
            CASE k = "lower" -> islower(pw[i])
              [] k = "upper" -> isupper(pw[i])
              [] k = "digit" -> isdigit(pw[i])
              [] k = "symbol" -> ~isalnum(pw[i])}

EntropyPoints(pw) ==
    LET size == charset_size(pw)
        bits == IF size = 0 THEN 0 ELSE Len(pw) * Log2Micro(size)
    IN  CASE bits < 40000000 -> 0
          [] bits >= 40000000 /\ bits < 70000000 -> 10
          [] bits >= 70000000 -> 20

Unclamped(pw, words) ==
    LengthPoints(pw) + 10 * Cardinality(ClassesPresent(pw)) + EntropyPoints(pw)
    - 25 * Bit(HitWords(pw, words) # {})
    - 15 * Bit(has_simple_sequence(pw, 4))
    - 15 * Bit(has_repeated_run(pw, 4))

\* C10: the score of a non-empty password is L + 10*C + E - 25*D - 15*S - 15*R
\* brought into 0..100; the sum itself is never above 100, so only the lower
\* limit changes it.
C10_ScoreFormula ==
    (Scored /\ password # <<>>) =>
        LET sum == Unclamped(password, common_words)
        IN  /\ result.score = (IF sum < 0 THEN 0 ELSE IF sum > 100 THEN 100 ELSE sum)
            /\ result.raw = sum
            /\ sum <= 100
            /\ result.score # sum => sum < 0

\* Two words hit a password whose score stays above 0.
C10_Witness ==
    /\ called = "calculate_score_and_suggestions"
    /\ Cardinality(HitWords(password, common_words)) = 2
    /\ result.score > 0
    /\ result.score = result.raw

=============================================================================
